---- MODULE Spec2Model ----
(***************************************************************************)
(* conditional_context: a context manager that can skip the body of a     *)
(* with-statement.  The model covers ConditionalContext (__init__,         *)
(* should_skip, replace_should_skip, __enter__, __exit__,                  *)
(* __getattribute__), breakout(), _settrace(), condition() and wrap(),     *)
(* together with the part of the interpreter the construct drives: the     *)
(* process-wide trace hook (sys.gettrace/sys.settrace), the caller frame's *)
(* f_trace, the line/exception trace events and the with-statement         *)
(* protocol (enter, body, exit, suppression by a truthy __exit__ result).  *)
(* A with-statement is written over several lines, as in the tests (every  *)
(* statement of the body starts a line and the interpreter raises a 'line' *)
(* event before it), or on one line (`with c: stmt; stmt`: the body shares *)
(* the line of the with-statement and no 'line' event precedes it).  One   *)
(* thread runs them; a wrapped resource's __enter__ may raise, its         *)
(* __exit__ returns a falsy (None) or a truthy (True) result.              *)
(***************************************************************************)
EXTENDS Integers, Sequences, FiniteSets, TLC

\* ------------------------------------------------------------------ bounds
MaxDepth == 2      \* with-statements open at the same time in the caller frame
MaxValue == 1      \* body statements the caller executes in one run

\* --------------------------------------------------------------- universes
Inst == {"c1", "c2"}                 \* ConditionalContext instances
Funcs == {"f"}                       \* functions usable as a replaced predicate
ExitRets == {"None", "True"}          \* what a wrapped __exit__ may return:
                                     \* a falsy or a truthy result

VARIABLES
    trace,        \* the process-wide trace hook (sys.gettrace()): "None", "noop"
                  \* (the lambda of __enter__) or "T" (a debugger's function)
    f_trace,      \* f_trace of the frame that holds the with-statements:
                  \* "None", "T" or "breakout"
    should_run,   \* self.should_run, per instance
    should_skip,  \* what self.should_skip resolves to, per instance
    context,      \* self.context: "None" or the wrapped resource "res"
    _orig_trace,  \* self._orig_trace, per instance
    skipped,      \* self.skipped, per instance
    flag,         \* what each predicate function returns when called now
    stack,        \* the open with-statements of the caller frame, innermost last
    exc,          \* the exception in flight in the caller frame: "None",
                  \* "ContextSkipError", "BodyError" or "InnerError"
    value,        \* the caller's variable: body statements executed so far
    last,         \* observation: the entry or exit made by the last step
    lastf,        \* observation: last non-None function given to replace_should_skip
    attr          \* observation: the most recent attribute read

vars == <<trace, f_trace, should_run, should_skip, context, _orig_trace, skipped,
          flag, stack, exc, value, last, lastf, attr>>

NoLast == [kind |-> "none"]
NoAttr == [inst |-> "none"]

\* ------------------------------------------------------------ the construct

\* should_skip(): the method returns `not self.should_run`; a subclass that
\* overrides it (MyContext of the tests) returns True; a replaced predicate
\* returns whatever the function returns at the call.
ShouldSkip(i) ==
    CASE should_skip[i] = "method" -> ~should_run[i]
      [] should_skip[i] = "override" -> TRUE
      [] OTHER -> flag[should_skip[i]]

\* A faulty variant: replace_should_skip that never replaces the predicate.
ReplaceShouldSkip_keep(cur, func) == cur

\* replace_should_skip(func): the attribute after the call.
ReplaceShouldSkip(cur, func) == IF func /= "None" THEN func ELSE cur

\* __enter__, the if-block: the hook, the frame trace, _orig_trace and skipped
\* after it.
EnterHook(skip) == IF skip /\ trace = "None" THEN "noop" ELSE trace

\* __enter__: frame.f_trace = self.breakout when the block is to be skipped.
EnterFrameTrace(skip) == IF skip THEN "breakout" ELSE f_trace

EnterOrigTrace(i, skip) == IF skip THEN trace ELSE _orig_trace[i]

EnterSkipped(i, skip) == IF skip THEN TRUE ELSE skipped[i]

\* __exit__, the reset: _settrace(self._orig_trace) when self.skipped.
ExitHook(i) == IF skipped[i] THEN _orig_trace[i] ELSE trace

ExitOrigTrace(i) == IF skipped[i] THEN "None" ELSE _orig_trace[i]

\* A faulty variant: __exit__ that drops the wrapped result.
ExitResult_dropped(etype, context_exit) ==
    IF etype = "ContextSkipError" THEN "True" ELSE "None"

\* __exit__, the result: True for the skip signal, else the wrapped result.
ExitResult(etype, context_exit) ==
    IF etype = "ContextSkipError" THEN "True" ELSE context_exit

\* __enter__ calls the wrapped __enter__ whether or not the block is skipped;
\* __exit__ calls the wrapped __exit__ whatever the exception is.
InnerEnterCalls(i) == IF context[i] = "None" THEN 0 ELSE 1

InnerExitCalls(i) == IF context[i] = "None" THEN 0 ELSE 1

\* breakout(): what the call raises.
BreakoutRaises == "ContextSkipError"

\* A truthy __exit__ result suppresses the exception of the body.
Suppresses(ret) == ret = "True"

\* The interpreter calls the frame's f_trace on the next event of the frame
\* while a process-wide hook is installed.
TraceFires(hook, ft) == hook /= "None" /\ ft = "breakout"

Top == stack[Len(stack)]

\* The state after construction.  c1 = wrap(res, should_run=...) wraps a
\* resource; c2 = MyContext() is an instance of a subclass that overrides
\* should_skip to return True (the tests) and wraps nothing.  __init__ calls
\* replace_should_skip(None), sets _orig_trace = None and skipped = False.
Init ==
    /\ trace \in {"None", "T"}
    /\ f_trace = trace
    /\ should_run \in {[c1 |-> TRUE, c2 |-> TRUE], [c1 |-> FALSE, c2 |-> TRUE]}
    /\ lastf = [i \in Inst |-> "None"]
    /\ should_skip = [i \in Inst |->
          ReplaceShouldSkip(IF i = "c2" THEN "override" ELSE "method", "None")]
    /\ context = [c1 |-> "res", c2 |-> "None"]
    /\ _orig_trace = [i \in Inst |-> "None"]
    /\ skipped = [i \in Inst |-> FALSE]
    /\ flag \in [Funcs -> BOOLEAN]
    /\ stack = <<>>
    /\ exc = "None"
    /\ value = 0
    /\ last = NoLast
    /\ attr = NoAttr

\* ------------------------------------------------------- attribute lookup

\* A faulty variant: the list of __getattribute__ without "skipped".
OwnedNames_short ==
    {"_WARNING_IGNORED", "__init__", "__enter__", "__exit__", "should_skip",
     "replace_should_skip", "breakout", "should_run", "context", "_orig_trace"}

\* The names __getattribute__ resolves on the construct itself.
OwnedNames ==
    {"_WARNING_IGNORED", "__init__", "__enter__", "__exit__", "should_skip",
     "replace_should_skip", "breakout", "should_run", "context", "_orig_trace",
     "skipped"}

\* The names read in the model: the owned ones, one every object has, two only
\* the wrapped resource has, and one nobody has.
AttrNames ==
    {"_WARNING_IGNORED", "__init__", "__enter__", "__exit__", "should_skip",
     "replace_should_skip", "breakout", "should_run", "context", "_orig_trace",
     "skipped", "__class__", "name", "read", "closed"}

\* The attributes of the wrapped resource: a context manager with a name, a
\* read method and a skipped attribute of its own.
InnerNames ==
    {"__init__", "__enter__", "__exit__", "__class__", "name", "read", "skipped"}

BoolStr(b) == IF b THEN "True" ELSE "False"

\* super().__getattribute__(name): the construct's own attribute.
OwnAttribute(i, name) ==
    CASE name = "should_run" -> [from |-> "self", val |-> BoolStr(should_run[i])]
      [] name = "skipped" -> [from |-> "self", val |-> BoolStr(skipped[i])]
      [] name = "context" -> [from |-> "self", val |-> context[i]]
      [] name = "_orig_trace" -> [from |-> "self", val |-> _orig_trace[i]]
      [] name = "should_skip" -> [from |-> "self", val |-> should_skip[i]]
      [] name = "breakout" -> [from |-> "self", val |-> "breakout"]
      [] name = "_WARNING_IGNORED" -> [from |-> "self", val |-> "False"]
      [] name \in {"__init__", "__enter__", "__exit__", "replace_should_skip"} ->
            [from |-> "self", val |-> "ConditionalContext method"]
      [] name = "__class__" -> [from |-> "self", val |-> "ConditionalContext"]
      [] OTHER -> [from |-> "self", val |-> "AttributeError"]

\* type(self.context).__getattribute__(self.context, name).
InnerAttribute(ctx, name) ==
    IF name \in InnerNames
    THEN [from |-> "inner", val |-> "attribute of " \o ctx]
    ELSE [from |-> "inner", val |-> "AttributeError"]

\* ConditionalContext.__getattribute__(name).
GetAttribute(i, name) ==
    IF context[i] = "None" \/ name \in OwnedNames
    THEN OwnAttribute(i, name)
    ELSE InnerAttribute(context[i], name)

\* ------------------------------------------------------------ the interpreter

\* An exception reaches the caller frame while a hook is installed: the frame's
\* f_trace is called with the 'exception' event.  breakout() raises, the raised
\* ContextSkipError replaces the exception in flight, and the interpreter drops
\* the hook and the frame's f_trace.
EventExc(hook, ft, e) == IF TraceFires(hook, ft) THEN "ContextSkipError" ELSE e

EventHook(hook, ft) == IF TraceFires(hook, ft) THEN "None" ELSE hook

EventFrameTrace(hook, ft) == IF TraceFires(hook, ft) THEN "None" ELSE ft

\* The next statement of the caller starts a new line, unless it belongs to
\* the body of a with-statement written on one line; the 'line' event of a new
\* line calls the frame's f_trace.
LineDue == TraceFires(trace, f_trace) /\ ~(stack /= <<>> /\ Top.one)

\* What the caller may do next: nothing is in flight and no trace event is due.
Running == exc = "None" /\ ~LineDue

\* ----------------------------------------------------------------- actions

\* `with <i>:` -- type(i).__enter__(i).  o is what the wrapped resource's
\* __enter__ does ("return" or "raise"); it matters only when i wraps one.
\* one says that the with-statement and its body are written on one line; the
\* body of such a with-statement holds no with-statement.
Enter(i, o, one) ==
    /\ Running
    /\ Len(stack) < MaxDepth
    /\ stack /= <<>> => ~Top.one
    /\ o = "raise" => context[i] /= "None"
    /\ LET skip == ShouldSkip(i)
           hook == EnterHook(skip)
           ft == EnterFrameTrace(skip)
           wrapped == context[i] /= "None"
           rec == [inst |-> i, one |-> one, skip |-> skip,
                   pre |-> trace, v0 |-> value, brk |-> -1]
           seen == [inst |-> i, skip |-> skip,
                    chg |-> (hook /= trace \/ ft /= f_trace),
                    ien |-> InnerEnterCalls(i),
                    fl |-> IF lastf[i] = "None" THEN "na"
                           ELSE IF flag[lastf[i]] THEN "T" ELSE "F"]
       IN /\ _orig_trace' = [_orig_trace EXCEPT ![i] = EnterOrigTrace(i, skip)]
          /\ skipped' = [skipped EXCEPT ![i] = EnterSkipped(i, skip)]
          /\ IF o = "raise"
             THEN /\ exc' = EventExc(hook, ft, "InnerError")
                  /\ trace' = EventHook(hook, ft)
                  /\ f_trace' = EventFrameTrace(hook, ft)
                  /\ stack' = stack
                  /\ last' = [kind |-> "enterfail", pre |-> trace,
                              post |-> trace', out |-> exc'] @@ seen
             ELSE /\ exc' = "None"
                  /\ trace' = hook
                  /\ f_trace' = ft
                  /\ stack' = Append(stack, rec)
                  /\ last' = [kind |-> "enter", out |-> "None"] @@ seen
    /\ UNCHANGED <<should_run, should_skip, context, flag, value, lastf, attr>>

\* The caller reaches a new line while a hook is installed and the frame's
\* f_trace is self.breakout (the first line of the body of a skipped block):
\* the interpreter calls it with the 'line' event, it raises ContextSkipError,
\* and the interpreter drops the hook and the frame's f_trace.
LineTrace ==
    /\ exc = "None"
    /\ LineDue
    /\ exc' = BreakoutRaises
    /\ trace' = "None"
    /\ f_trace' = "None"
    /\ last' = NoLast
    /\ UNCHANGED <<should_run, should_skip, context, _orig_trace, skipped, flag,
                   stack, value, lastf, attr>>

\* One statement of the body of the innermost open block.
Statement ==
    /\ Running
    /\ stack /= <<>>
    /\ value < MaxValue
    /\ value' = value + 1
    /\ last' = NoLast
    /\ UNCHANGED <<trace, f_trace, should_run, should_skip, context, _orig_trace,
                   skipped, flag, stack, exc, lastf, attr>>

\* breakout() / ctx.breakout() called in the body of the innermost open block.
Breakout ==
    /\ Running
    /\ stack /= <<>>
    /\ exc' = EventExc(trace, f_trace, BreakoutRaises)
    /\ trace' = EventHook(trace, f_trace)
    /\ f_trace' = EventFrameTrace(trace, f_trace)
    /\ stack' = [stack EXCEPT ![Len(stack)].brk = value]
    /\ last' = NoLast
    /\ UNCHANGED <<should_run, should_skip, context, _orig_trace, skipped, flag,
                   value, lastf, attr>>

\* The body raises an exception of its own.
Raise ==
    /\ Running
    /\ stack /= <<>>
    /\ exc' = EventExc(trace, f_trace, "BodyError")
    /\ trace' = EventHook(trace, f_trace)
    /\ f_trace' = EventFrameTrace(trace, f_trace)
    /\ last' = NoLast
    /\ UNCHANGED <<should_run, should_skip, context, _orig_trace, skipped, flag,
                   stack, value, lastf, attr>>

\* The innermost block ends, normally or with the exception in flight:
\* type(i).__exit__(i, etype, value, traceback).  r is what the wrapped
\* resource's __exit__ returns when i wraps one.
Exit(r) ==
    /\ stack /= <<>>
    /\ exc = "None" => ~LineDue
    /\ LET i == Top.inst
           etype == exc
           wrapped == context[i] /= "None"
           context_exit == IF wrapped THEN r ELSE "None"
           ret == ExitResult(etype, context_exit)
           out == IF Suppresses(ret) THEN "None" ELSE etype
       IN /\ r /= "None" => wrapped
          /\ trace' = ExitHook(i)
          /\ _orig_trace' = [_orig_trace EXCEPT ![i] = ExitOrigTrace(i)]
          /\ exc' = out
          /\ stack' = SubSeq(stack, 1, Len(stack) - 1)
          /\ last' = [kind |-> "exit", inst |-> i, skip |-> Top.skip,
                      pre |-> Top.pre, post |-> trace', v0 |-> Top.v0,
                      v1 |-> value, brk |-> Top.brk, etype |-> etype,
                      ret |-> ret,
                      iarg |-> IF InnerExitCalls(i) = 1 THEN etype ELSE "nocall",
                      iret |-> IF InnerExitCalls(i) = 1 THEN r ELSE "nocall",
                      iex |-> InnerExitCalls(i), out |-> out,
                      chg |-> (trace' /= trace)]
    /\ UNCHANGED <<f_trace, should_run, should_skip, context, skipped, flag,
                   value, lastf, attr>>

\* An exception leaves the outermost with-statement: the caller sees it and
\* handles it.
Surface ==
    /\ stack = <<>>
    /\ exc /= "None"
    /\ exc' = "None"
    /\ last' = NoLast
    /\ UNCHANGED <<trace, f_trace, should_run, should_skip, context, _orig_trace,
                   skipped, flag, stack, value, lastf, attr>>

\* i.replace_should_skip(func), as a call or as a decorator.
Replace(i, func) ==
    /\ Running
    /\ should_skip' = [should_skip EXCEPT ![i] = ReplaceShouldSkip(@, func)]
    /\ lastf' = [lastf EXCEPT ![i] = IF func /= "None" THEN func ELSE @]
    /\ last' = NoLast
    /\ UNCHANGED <<trace, f_trace, should_run, context, _orig_trace, skipped, flag,
                   stack, exc, value, attr>>

\* The state a predicate function reads changes: it returns b from now on.
SetFlag(fn, b) ==
    /\ Running
    /\ flag[fn] /= b
    /\ flag' = [flag EXCEPT ![fn] = b]
    /\ last' = NoLast
    /\ UNCHANGED <<trace, f_trace, should_run, should_skip, context, _orig_trace,
                   skipped, stack, exc, value, lastf, attr>>

\* getattr(i, name) by the caller.
GetAttr(i, name) ==
    /\ Running
    /\ attr' = [inst |-> i, name |-> name, res |-> GetAttribute(i, name)]
    /\ last' = NoLast
    /\ UNCHANGED <<trace, f_trace, should_run, should_skip, context, _orig_trace,
                   skipped, flag, stack, exc, value, lastf>>

Next ==
    \/ \E i \in Inst, o \in {"return", "raise"}, one \in BOOLEAN : Enter(i, o, one)
    \/ LineTrace
    \/ Statement
    \/ Breakout
    \/ Raise
    \/ \E r \in ExitRets : Exit(r)
    \/ Surface
    \/ \E i \in Inst, func \in Funcs \cup {"None"} : Replace(i, func)
    \/ \E fn \in Funcs, b \in BOOLEAN : SetFlag(fn, b)

Spec == Init /\ [][Next]_vars

\* The caller of the tests: every with-statement is written over several lines
\* and the __enter__ of a wrapped resource returns.
NextPlain ==
    \/ \E i \in Inst : Enter(i, "return", FALSE)
    \/ LineTrace
    \/ Statement
    \/ Breakout
    \/ Raise
    \/ \E r \in ExitRets : Exit(r)
    \/ Surface
    \/ \E i \in Inst, func \in Funcs \cup {"None"} : Replace(i, func)
    \/ \E fn \in Funcs, b \in BOOLEAN : SetFlag(fn, b)

SpecPlain == Init /\ [][NextPlain]_vars

\* The attribute reads, on instances whose predicate may have been replaced.
NextAttr ==
    \/ \E i \in Inst, name \in AttrNames : GetAttr(i, name)
    \/ \E i \in Inst, func \in Funcs \cup {"None"} : Replace(i, func)

SpecAttr == Init /\ [][NextAttr]_vars

\* -------------------------------------------------------------- properties

Wrapped(i) == context[i] /= "None"

\* C1: a with-statement that was entered with its skip predicate returning
\* true executes no statement of its body (the caller's variable keeps the
\* value it had at entry while the block is open and after it), leaves no
\* exception in flight, and the caller runs on after the block.
C1_SkippedBlockLeavesCallerUntouched ==
    /\ \A k \in 1..Len(stack) : stack[k].skip => value = stack[k].v0
    /\ (last.kind = "exit" /\ last.skip) =>
          /\ last.v1 = last.v0
          /\ last.out = "None"
          /\ Running

\* C2: a with-statement whose predicate returned false and that wraps nothing
\* behaves as the bare block: its statements are not interrupted, an exception
\* of the body other than the skip signal leaves the block (__exit__ does not
\* return True), and neither __enter__ nor __exit__ changed the process-wide
\* hook or the frame's f_trace.
C2_RunBlockIsTransparent ==
    /\ (stack /= <<>> /\ ~Top.skip /\ exc = "None") => Running
    /\ (last.kind = "enter" /\ ~last.skip /\ ~Wrapped(last.inst)) => ~last.chg
    /\ (last.kind = "exit" /\ ~last.skip /\ ~Wrapped(last.inst)) =>
          /\ ~last.chg
          /\ last.etype /= "ContextSkipError" => last.ret /= "True"
          /\ last.etype /= "ContextSkipError" => last.out = last.etype

\* C3: breakout() in the body of a block that was not skipped: the statements
\* before the call keep their effect, none runs after it (the caller's variable
\* still has the value it had at the call when the block has ended), __exit__
\* receives the skip signal and no exception leaves the block.
C3_BreakoutEndsBlockQuietly ==
    /\ \A k \in 1..Len(stack) : stack[k].brk >= 0 =>
          /\ k = Len(stack)
          /\ value = stack[k].brk
          /\ exc = "ContextSkipError"
    /\ (last.kind = "exit" /\ ~last.skip /\ last.brk >= 0) =>
          /\ last.etype = "ContextSkipError"
          /\ last.brk >= last.v0
          /\ last.v1 = last.brk
          /\ last.out = "None"
          /\ Running

\* C4: ContextSkipError never leaves a with-statement of the construct,
\* whatever the wrapped resource's __enter__ and __exit__ do.
C4_SkipSignalNeverLeaves ==
    last.kind /= "none" => last.out /= "ContextSkipError"

\* C5: when the __exit__ of a with-statement has completed, the process-wide
\* hook is the one that was installed just before that with-statement's entry.
C5_HookRestoredOnExit ==
    last.kind = "exit" => last.post = last.pre

\* C6: a wrapping construct whose block was not skipped, for every outcome of
\* the body but the skip signal: the wrapped __exit__ is called once with that
\* outcome, __exit__ returns what it returned, and the exception is suppressed
\* exactly when the wrapped __exit__ returned True.
C6_WrappedExitDecides ==
    (/\ last.kind = "exit"
     /\ Wrapped(last.inst)
     /\ ~last.skip
     /\ last.etype /= "ContextSkipError") =>
        /\ last.iex = 1
        /\ last.iarg = last.etype
        /\ last.ret = last.iret
        /\ last.out = (IF last.iret = "True" THEN "None" ELSE last.etype)

C6_Witness ==
    /\ last.kind = "exit"
    /\ Wrapped(last.inst)
    /\ ~last.skip
    /\ last.etype = "BodyError"
    /\ last.iret = "True"
    /\ last.out = "None"

\* C7: once replace_should_skip(f) was called with a function f, the predicate
\* of the instance is f and every later entry skips exactly when f() returns
\* true at that entry; replace_should_skip(None) leaves the predicate as it is;
\* a replacement changes nothing of the with-statements already entered.
C7_Decides ==
    /\ \A i \in Inst : lastf[i] /= "None" => should_skip[i] = lastf[i]
    /\ (last.kind \in {"enter", "enterfail"} /\ last.fl /= "na") =>
          (last.skip <=> last.fl = "T")

C7_ReplaceStep ==
    /\ \A i \in Inst : lastf'[i] = lastf[i] => should_skip'[i] = should_skip[i]
    /\ should_skip' /= should_skip =>
          /\ stack' = stack
          /\ skipped' = skipped
          /\ _orig_trace' = _orig_trace
          /\ trace' = trace
          /\ f_trace' = f_trace
          /\ exc' = exc
          /\ value' = value

C7_ReplacedPredicateDecides == []C7_Decides /\ [][C7_ReplaceStep]_vars

C7_Witness ==
    /\ last.kind = "enter"
    /\ last.inst = "c1"
    /\ should_run["c1"]
    /\ last.fl = "T"
    /\ last.skip

\* C8: right after each entry, the skipped flag of the instance is true exactly
\* when the predicate made that entry skip the body.
C8_SkippedFlagTellsTheEntry ==
    last.kind = "enter" => (skipped[last.inst] <=> last.skip)

\* C9: on a wrapping construct a name outside the owned set is read from the
\* wrapped resource, a name of the owned set from the construct itself even
\* when the wrapped resource has that name too; on a construct that wraps
\* nothing every name is read from the construct.
C9_AttributeForwarding ==
    attr.inst /= "none" =>
        IF /\ Wrapped(attr.inst)
           /\ attr.name \notin {"_WARNING_IGNORED", "__init__", "__enter__",
                                "__exit__", "should_skip", "replace_should_skip",
                                "breakout", "should_run", "context",
                                "_orig_trace", "skipped"}
        THEN /\ attr.res.from = "inner"
             /\ attr.res = InnerAttribute(context[attr.inst], attr.name)
        ELSE /\ attr.res.from = "self"
             /\ attr.name /= "should_skip" =>
                   attr.res = OwnAttribute(attr.inst, attr.name)

C9_Witness ==
    /\ attr.inst /= "none"
    /\ Wrapped(attr.inst)
    /\ attr.name = "read"
    /\ attr.res.from = "inner"
    /\ attr.res.val /= "AttributeError"

\* C10: a wrapping construct calls the wrapped __enter__ once at entry and the
\* wrapped __exit__ once at exit, skipped or not; when the block was skipped or
\* left by breakout() the wrapped __exit__ receives ContextSkipError and
\* __exit__ returns True whatever the wrapped __exit__ returned.
C10_WrappedCalledOnceEach ==
    /\ (last.kind \in {"enter", "enterfail"} /\ Wrapped(last.inst)) =>
          last.ien = 1
    /\ (last.kind = "exit" /\ Wrapped(last.inst)) =>
          /\ last.iex = 1
          /\ (last.skip \/ last.brk >= 0) =>
                /\ last.iarg = "ContextSkipError"
                /\ last.ret = "True"
                /\ last.out = "None"

====
